---------------------------- MODULE Spec2Model ----------------------------
(***************************************************************************)
(* A model of efin-proxy: the certificate cache (Proxy.generateCert), the  *)
(* six-stage hook pipeline (ReadOnlyPipeline, ModPipeline), the proxy      *)
(* engine (Proxy.ServeHTTP, Proxy.HandleConnect), the live configuration   *)
(* (Config.Apply, Server.SetConfig, Server.GetConfig) and the plugin hooks *)
(* of the mutation stages (Server.RequestModHook, Server.ResponseModHook). *)
(*                                                                         *)
(* Every lock-protected section of the code is one action; code between    *)
(* two accesses to shared state is folded into the action that follows.    *)
(* Three specifications share the variables: SpecCert (certificate cache), *)
(* SpecPlugin (plugin clients of the mutation stages) and Spec (exchanges, *)
(* pipelines and configuration).                                           *)
(***************************************************************************)
EXTENDS Integers, Sequences, FiniteSets, TLC

(***************************************************************************)
(* Bounds of the model.                                                    *)
(***************************************************************************)
\* Number of concurrent callers of generateCert (one per CONNECT).
MaxCallers == 3

NoCert == 0

\* Number of plugin streams (calls of Server.RequestMod / Server.ResponseMod).
MaxSessions == 2

\* Number of invocations of a mutation-stage plugin hook.
MaxInvocations == 2

\* Capacity of a plugin client's inbox; stands for the 1000 of
\* make(chan *http.Request, 1000).
InboxCap == 1

\* Number of exchanges (requests that enter the proxy and get an identifier).
MaxExchanges == 2

\* Number of exchanges and SetConfig calls together.
MaxOps == 2

\* Number of exchanges the two handlers serve at the same time.
MaxInFlight == 1

\* Number of exchanges served by the proxy with a user hook on request_in.
MaxHookExchanges == 1

\* Number of CONNECT requests.
MaxConnects == 1

\* Number of scope decisions recorded.
MaxScopeCalls == 2

\* Length of a message body, in bytes.
BodyLen == 2

\* Number of SetConfig calls.
MaxSetConfig == 1

\* Capacity of a read-only stage's queue; stands for the 1000 of
\* make(chan roQueueItem[I], 1000).
QueueCap == 1

CertHosts == {"a.test", "b.test"}

VARIABLES
    \* ---- certificate cache (Proxy.CertCache, guarded by Proxy.CertMutex)
    CertCache,      \* host -> certificate identity, NoCert when absent
    certPc,         \* caller -> "idle" | "generate" | "store" | "done"
    certHost,       \* caller -> the host it mints for
    certLocal,      \* caller -> the certificate it generated (local `cert`)
    certRet,        \* caller -> the certificate returned (NoCert: none/error)
    certNext,       \* identity of the next certificate certs.GenerateCert makes
    certObserved,   \* host -> a caller was returned the stored certificate
    \* ---- plugin clients of the mutation stages (Server.requestModClients,
    \*      Server.responseModClients and the stream handlers)
    modClients,     \* stage -> client name -> session registered (NoSession: none)
    sess,           \* session -> state of its stream handler and channels
    closing,        \* sessions whose inbox asyncCloseChannel will close
    inv,            \* invocation -> state of a plugin hook call
    \* ---- proxy engine, pipelines and live configuration
    InScopeFunc,    \* Proxy.InScopeFunc: the scope descriptor installed
    hooks,          \* stage -> hook vector of the stage's pipeline
    queue,          \* read-only stage -> queued items (roQueueItem)
    worker,         \* read-only stage -> item in processItem and hooks left
    config,         \* Server.config
    cfgPc,          \* position of the SetConfig call holding configMutex
    newConfig,      \* SetConfig's local newConfig
    lastSet,        \* outcome of the last finished SetConfig call
    setCalls,       \* number of SetConfig calls so far
    pc,             \* handler -> position in ServeHTTP / HandleConnect
    cur,            \* handler -> identifier of the exchange it handles
    req,            \* handler -> the request as read from the client
    heap,           \* exchange -> its request and response objects (*http.Request,
                    \* *http.Response): what every pointer to them sees
    snap,           \* handler -> hook vector snapshot of the running mod stage
    idx,            \* handler -> index of the next mod hook
    nextId,         \* number of identifiers handed out
    tun,            \* the CONNECT tunnel: its two connections, the reply to the
                    \* CONNECT, the io.Copy goroutines of a WebSocket splice
    ex,             \* exchange -> what happened to it
    \* ---- scope decisions of a proxy built by ProxyBuilder.GetProxy
    scopeLog,       \* the calls of IsInScope made so far, with their results
    \* ---- one mutation pipeline run twice on the same message
    noop            \* the two runs: the hook vector as it is, and with a hook
                    \* that returns its input added

certVars == <<CertCache, certPc, certHost, certLocal, certRet, certNext, certObserved>>

pluginVars == <<modClients, sess, closing, inv>>

proxyVars == <<InScopeFunc, hooks, queue, worker>>

configVars == <<config, cfgPc, newConfig, lastSet, setCalls>>

handlerVars == <<pc, cur, req, heap, snap, idx, nextId, tun, ex>>

mainVars == <<proxyVars, configVars, handlerVars>>

funcVars == <<scopeLog, noop>>

vars == <<certVars, pluginVars, mainVars, funcVars>>

Callers == 1..MaxCallers

(***************************************************************************)
(* Proxy.generateCert                                                      *)
(***************************************************************************)
\* NewProxy: CertCache: make(map[string]*tls.Certificate)
CertInit ==
    /\ CertCache = [h \in CertHosts |-> NoCert]
    /\ certPc = [p \in Callers |-> "idle"]
    /\ certHost = [p \in Callers |-> "a.test"]
    /\ certLocal = [p \in Callers |-> NoCert]
    /\ certRet = [p \in Callers |-> NoCert]
    /\ certNext = 1
    /\ certObserved = [h \in CertHosts |-> FALSE]

\* The read-locked lookup: RLock; if cert, ok := CertCache[host]; ok { return cert }
generateCertLookup(p, host) ==
    /\ certPc[p] = "idle"
    /\ certHost' = [certHost EXCEPT ![p] = host]
    /\ IF CertCache[host] # NoCert
       THEN /\ certPc' = [certPc EXCEPT ![p] = "done"]
            /\ certRet' = [certRet EXCEPT ![p] = CertCache[host]]
            /\ certObserved' = [certObserved EXCEPT ![host] = TRUE]
       ELSE /\ certPc' = [certPc EXCEPT ![p] = "generate"]
            /\ UNCHANGED <<certRet, certObserved>>
    /\ UNCHANGED <<CertCache, certLocal, certNext>>

\* cert, err := certs.GenerateCert(...), outside any lock; err => return nil, err
generateCertGenerate(p, fails) ==
    /\ certPc[p] = "generate"
    /\ IF fails
       THEN /\ certPc' = [certPc EXCEPT ![p] = "done"]
            /\ UNCHANGED <<certLocal, certNext>>
       ELSE /\ certPc' = [certPc EXCEPT ![p] = "store"]
            /\ certLocal' = [certLocal EXCEPT ![p] = certNext]
            /\ certNext' = certNext + 1
    /\ UNCHANGED <<CertCache, certHost, certRet, certObserved>>

\* Lock; CertCache[host] = cert; Unlock; return cert
generateCertStore(p) ==
    /\ certPc[p] = "store"
    /\ CertCache' = [CertCache EXCEPT ![certHost[p]] = certLocal[p]]
    /\ certRet' = [certRet EXCEPT ![p] = certLocal[p]]
    /\ certObserved' = [certObserved EXCEPT ![certHost[p]] = TRUE]
    /\ certPc' = [certPc EXCEPT ![p] = "done"]
    /\ UNCHANGED <<certHost, certLocal, certNext>>

(***************************************************************************)
(* HTTP messages.  A message carries the identifier of its exchange and    *)
(* its header names; the body is not modelled here.                        *)
(***************************************************************************)
HeaderNames == {"Accept-Encoding", "X-Plugin"}

\* The headers a plugin client inserts.
PluginHeaders == {"X-Plugin"}

\* The header sets of the messages that enter the proxy.
ClientHeaders == {{}, {"Accept-Encoding"}}

NoMsg == [id |-> 0, headers |-> {}]

\* ToProtoRequest / ToProtoResponse: the identifier read from the context
\* (ids.GetRequestID) and the header list.
ToProto(m) == [Id |-> m.id, Headers |-> m.headers]

\* FromProtoRequest / FromProtoResponse: a new message built from the proto,
\* the identifier re-attached from the proto's id field.
FromProto(pm) == [id |-> pm.Id, headers |-> pm.Headers]

\* The built-in request mutator of Config.Apply: r.Header.Del("Accept-Encoding").
StripAcceptEncoding(m) == [m EXCEPT !.headers = @ \ {"Accept-Encoding"}]

(***************************************************************************)
(* Plugin clients of the mutation stages.                                  *)
(***************************************************************************)
ModStages == {"request_mod", "response_mod"}

ClientNames == {"c1", "c2"}

Sessions == 1..MaxSessions

Invocations == 1..MaxInvocations

NoSession == 0

\* All orders in which `for _, rc := range s.requestModClients` may list the
\* registered sessions (Go map iteration order is unspecified).
Orders(S) ==
    {q \in UNION {[1..n -> S] : n \in {Cardinality(S)}} :
        \A i, j \in 1..Cardinality(S) : i # j => q[i] # q[j]}

\* NewServer: empty registries; no stream opened, no hook running.
PluginInit ==
    /\ modClients = [st \in ModStages |-> [n \in ClientNames |-> NoSession]]
    /\ sess = [s \in Sessions |->
                 [pc |-> "new", stage |-> "request_mod", name |-> "c1",
                  inbox |-> <<>>, inboxClosed |-> FALSE, cur |-> NoMsg, out |-> NoMsg]]
    /\ closing = {}
    /\ inv = [i \in Invocations |->
                 [pc |-> "idle", stage |-> "request_mod", r |-> NoMsg,
                  clients |-> <<>>, idx |-> 1, sent |-> NoMsg, replied |-> FALSE,
                  lastReply |-> NoMsg, nils |-> {}, ret |-> NoMsg, delivered |-> NoMsg]]

\* A registration that replaces whatever the stage's registry holds under
\* the name.
StreamOpenOverwriting(s, st, n, registered) ==
    /\ sess[s].pc = "new"
    /\ \A t \in Sessions : t < s => sess[t].pc # "new"
    /\ IF registered
       THEN /\ modClients' = [modClients EXCEPT ![st][n] = s]
            /\ sess' = [sess EXCEPT ![s].pc = "range", ![s].stage = st, ![s].name = n]
       ELSE /\ sess' = [sess EXCEPT ![s].pc = "closed", ![s].stage = st, ![s].name = n]
            /\ UNCHANGED modClients
    /\ UNCHANGED <<closing, inv>>

\* Server.RequestMod / Server.ResponseMod up to the registration: the first
\* frame is a Register (registered = TRUE) or anything else (the handler
\* returns); a name already registered in the stage is rejected with an
\* error and the running registration is left as it is.
StreamOpen(s, st, n, registered) ==
    /\ sess[s].pc = "new"
    /\ \A t \in Sessions : t < s => sess[t].pc # "new"
    /\ IF registered /\ modClients[st][n] = NoSession
       THEN /\ modClients' = [modClients EXCEPT ![st][n] = s]
            /\ sess' = [sess EXCEPT ![s].pc = "range", ![s].stage = st, ![s].name = n]
       ELSE /\ sess' = [sess EXCEPT ![s].pc = IF registered THEN "rejected" ELSE "closed",
                                    ![s].stage = st, ![s].name = n]
            /\ UNCHANGED modClients
    /\ UNCHANGED <<closing, inv>>

\* `for r := range originalRequests`: take the next message and stream.Send
\* it (sendOk), or leave the loop when the inbox is closed and drained.  A
\* handler that returns closes modifiedRequests (the deferred close).
StreamTake(s, sendOk) ==
    /\ sess[s].pc = "range"
    /\ IF sess[s].inbox # <<>>
       THEN sess' = [sess EXCEPT
                ![s].inbox = Tail(@),
                ![s].cur = IF sendOk THEN Head(sess[s].inbox) ELSE NoMsg,
                ![s].pc = IF sendOk THEN "recv" ELSE "closed"]
       ELSE /\ sess[s].inboxClosed
            /\ sendOk
            /\ sess' = [sess EXCEPT ![s].pc = "closed"]
    /\ UNCHANGED <<modClients, closing, inv>>

\* stream.Recv after the send: the client answers with the message it was
\* sent, the headers hs added (valid = TRUE), or the stream ends, errs or
\* carries something else (the handler returns).
StreamReply(s, valid, hs) ==
    /\ sess[s].pc = "recv"
    /\ hs \subseteq PluginHeaders
    /\ IF valid
       THEN sess' = [sess EXCEPT
                ![s].out = FromProto([ToProto(sess[s].cur) EXCEPT !.Headers = @ \cup hs]),
                ![s].pc = "push"]
       ELSE /\ hs = {}
            /\ sess' = [sess EXCEPT ![s].pc = "closed", ![s].cur = NoMsg]
    /\ UNCHANGED <<modClients, closing, inv>>

\* asyncCloseChannel: after the grace period the inbox is closed (a second
\* close panics and is recovered).
AsyncClose(s) ==
    /\ s \in closing
    /\ closing' = closing \ {s}
    /\ sess' = [sess EXCEPT ![s].inboxClosed = TRUE]
    /\ UNCHANGED <<modClients, inv>>

\* A pipeline calls the plugin hook of stage st on message r; the hook lists
\* the registered clients under the read lock.
ModHookSnapshot(i, st, hs, order) ==
    /\ inv[i].pc = "idle"
    /\ \A j \in Invocations : j < i => inv[j].pc # "idle"
    /\ order \in Orders({modClients[st][n] : n \in ClientNames} \ {NoSession})
    /\ inv' = [inv EXCEPT ![i].pc = "offer", ![i].stage = st,
                          ![i].r = [id |-> i, headers |-> hs],
                          ![i].clients = order, ![i].idx = 1]
    /\ UNCHANGED <<modClients, sess, closing>>

\* The remaining hooks of the stage, run by ModPipeline.RunPipeline on what
\* the plugin hook returned: for request_mod the built-in strip hook.
RestOfStage(st, m) == IF st = "request_mod" THEN StripAcceptEncoding(m) ELSE m

\* The message the hook offers to the next client of its list:
\* `case client.originalRequests <- r`, where r is the parameter.
ModHookOffered(h) == h.r

\* The value the hook returns after its loop: `return r, nil`, where r is the
\* parameter (the `r := <-client.modifiedRequests` of the loop body declares
\* a new variable that ends with the iteration).
ModHookResult(h) == h.r

\* After the last client: return to the pipeline, which runs the rest of the
\* stage and hands the message on.
ModHookReturn(i) ==
    /\ inv[i].pc = "offer"
    /\ inv[i].idx > Len(inv[i].clients)
    /\ inv' = [inv EXCEPT ![i].pc = "done",
                          ![i].ret = ModHookResult(inv[i]),
                          ![i].delivered = RestOfStage(inv[i].stage, ModHookResult(inv[i]))]
    /\ UNCHANGED <<modClients, sess, closing>>

\* select { case client.originalRequests <- r: ...; default: evict }.
\* A send on a closed inbox panics.  On a full inbox the client is deleted
\* from the registry by name; ResponseModHook also schedules the close of the
\* inbox, RequestModHook continues before reaching it.
ModHookOffer(i) ==
    /\ inv[i].pc = "offer"
    /\ inv[i].idx <= Len(inv[i].clients)
    /\ LET c == inv[i].clients[inv[i].idx]
           st == inv[i].stage
       IN  IF sess[c].inboxClosed
           THEN /\ inv' = [inv EXCEPT ![i].pc = "panic"]
                /\ UNCHANGED <<modClients, sess, closing>>
           ELSE IF Len(sess[c].inbox) < InboxCap
           THEN /\ sess' = [sess EXCEPT ![c].inbox = Append(@, ModHookOffered(inv[i]))]
                /\ inv' = [inv EXCEPT ![i].pc = "await",
                                      ![i].sent = ModHookOffered(inv[i])]
                /\ UNCHANGED <<modClients, closing>>
           ELSE /\ modClients' = [modClients EXCEPT ![st][sess[c].name] = NoSession]
                /\ closing' = IF st = "response_mod" THEN closing \cup {c} ELSE closing
                /\ inv' = [inv EXCEPT ![i].idx = @ + 1]
                /\ UNCHANGED sess

\* r := <-client.modifiedRequests: the handler's pending send is received
\* (rendezvous on the unbuffered channel), or the channel is closed and the
\* receive yields nil: the client is evicted and its inbox scheduled to close.
ModHookAwait(i) ==
    /\ inv[i].pc = "await"
    /\ LET c == inv[i].clients[inv[i].idx]
           st == inv[i].stage
       IN  \/ /\ sess[c].pc = "push"
              /\ inv' = [inv EXCEPT ![i].pc = "offer", ![i].idx = @ + 1,
                                    ![i].replied = TRUE,
                                    ![i].lastReply = sess[c].out]
              /\ sess' = [sess EXCEPT ![c].pc = "range", ![c].out = NoMsg, ![c].cur = NoMsg]
              /\ UNCHANGED <<modClients, closing>>
           \/ /\ sess[c].pc = "closed"
              /\ modClients' = [modClients EXCEPT ![st][sess[c].name] = NoSession]
              /\ closing' = closing \cup {c}
              /\ inv' = [inv EXCEPT ![i].pc = "offer", ![i].idx = @ + 1,
                                    ![i].nils = @ \cup {c}]
              /\ UNCHANGED sess

(***************************************************************************)
(* Scope (internal/scope).                                                 *)
(***************************************************************************)
\* The host regular expressions a configuration may carry: "" (no regex),
\* one that matches the hosts starting with "a", and one that regexp.Compile
\* rejects.
DomainRes == {"", "^a", "("}

RegexCompiles(re) == re # "("

RegexMatch(re, host) == IF re = "^a" THEN host = "a.test" ELSE TRUE

\* strings.ToLower on the strings of the model.
ToLower(x) ==
    CASE x = "PNG"    -> "png"
      [] x = ".PNG"   -> ".png"
      [] x = "A.TEST" -> "a.test"
      [] OTHER        -> x

\* path.Ext(r.URL.Path) of the request paths of the model.
PathExt(path) ==
    CASE path = "/img.png" -> ".png"
      [] path = "/IMG.PNG" -> ".PNG"
      [] path = "/v.mp4"   -> ".mp4"
      [] OTHER             -> ""

\* scope.New: each excluded extension is stored lowercased behind a dot.
ScopeNew(re, exts) ==
    [domainRe |-> re,
     excluded |-> {"." \o ToLower(exts[k]) : k \in 1..Len(exts)}]

isExcludedExtension(sc, r) ==
    LET ext == ToLower(PathExt(r.path))
    IN  IF ext = "" THEN FALSE ELSE ext \in sc.excluded

\* r.Header.Get("host") of a request (the server moves the Host header of
\* what it reads into r.Host; a request built by hand may carry one).
HeaderGetHost(r) == IF "hostHeader" \in DOMAIN r THEN r.hostHeader ELSE ""

isIncludedDomain(sc, r) ==
    LET host == IF r.host # "" THEN r.host ELSE HeaderGetHost(r)
    IN  IF sc.domainRe = "" THEN TRUE
        ELSE IF host = "" THEN FALSE
        ELSE RegexMatch(sc.domainRe, host)

IsInScope(sc, r) == ~isExcludedExtension(sc, r) /\ isIncludedDomain(sc, r)

\* defaultExcludedExtensions of ProxyBuilder (forty entries, three of them
\* here), written with their leading dot.
defaultExcludedExtensions == <<".jpg", ".mp4", ".png">>

\* The -e list a builder may carry: none given (nil), or a list.
BuilderExtensions ==
    { [given |-> FALSE, list |-> <<>>],
      [given |-> TRUE, list |-> <<"png">>],
      [given |-> TRUE, list |-> <<"PNG">>] }

\* GetProxy: the default list unless pb.ExcludedExtensions is non-nil.
GetProxyExtensions(pb) ==
    IF pb.given THEN pb.list ELSE defaultExcludedExtensions

\* The host regular expressions of the scope decisions: none, or "^a".
ScopeRes == {"", "^a"}

\* Request targets, and the Path url.Parse gives for each: the query is
\* not part of it.
Targets == {"/", "/img.png", "/img.png?v=1", "/IMG.PNG", "/v.mp4", "/?f=x.png"}

URLPath(target) ==
    CASE target = "/img.png?v=1" -> "/img.png"
      [] target = "/?f=x.png"    -> "/"
      [] OTHER                   -> target

\* The requests a scope decision is made for: r.Host, the Host entry of
\* r.Header, the authority of r.URL and the request target.
ScopeRequests ==
    [host : {"", "a.test", "A.TEST", "b.test"},
     hostHeader : {"", "a.test"},
     authority : {"", "a.test"},
     target : Targets]

ScopeInit == scopeLog = <<>>

\* One call of the predicate installed by a proxy built with the -e list pb
\* and the host regex re: Scope.IsInScope on the parsed request.
ScopeCall(pb, re, rq) ==
    /\ Len(scopeLog) < MaxScopeCalls
    /\ LET sc == ScopeNew(re, GetProxyExtensions(pb))
           r  == [host |-> rq.host, hostHeader |-> rq.hostHeader,
                  path |-> URLPath(rq.target), headers |-> {}]
       IN  scopeLog' = Append(scopeLog,
                          [pb |-> pb, re |-> re, rq |-> rq,
                           result |-> IsInScope(sc, r)])
    /\ UNCHANGED noop

(***************************************************************************)
(* Pipelines (internal/pipeline) and their assembly (Config.Apply).        *)
(***************************************************************************)
Stages ==
    <<"request_in", "request_mod", "request_out",
      "response_in", "response_mod", "response_out">>

ROStages == {"request_in", "request_out", "response_in", "response_out"}

StageSet == ROStages \cup ModStages

\* The hook lists a Config carries, as ProxyBuilder.GetProxy builds them
\* when the plugin server is enabled: the user's hooks, then the plugin hook
\* of the stage.  SetConfig copies them unchanged from the running config.
ExplicitHooks(st) ==
    CASE st = "request_in"   -> <<"grpc.RequestInHook">>
      [] st = "request_mod"  -> <<"user.RequestMod", "grpc.RequestModHook">>
      [] st = "request_out"  -> <<"grpc.RequestOutHook">>
      [] st = "response_in"  -> <<"grpc.ResponseInHook">>
      [] st = "response_mod" -> <<"user.ResponseMod", "grpc.ResponseModHook">>
      [] st = "response_out" -> <<"grpc.ResponseOutHook">>

\* The hooks that may return an error: the mutation hooks a user supplies
\* and the logging hooks (LogRawRequest, LogRawResponse).  The built-in and
\* plugin hooks of the mutation stages and the plugin hooks of the read-only
\* stages always return nil.
MayFail(hk) ==
    hk \in {"user.RequestMod", "user.ResponseMod",
            "hooks.LogRawRequest", "hooks.LogRawResponse"}

\* Config.Apply, the assembly of the six effective hook vectors.
EffectiveHooks(c, st) ==
    LET logReq  == IF c.PrintLogs THEN <<"hooks.LogRawRequest">> ELSE <<>>
        logResp == IF c.PrintLogs THEN <<"hooks.LogRawResponse">> ELSE <<>>
        dbReq   == IF c.DBFile # "" THEN <<"db.saveRequest">> ELSE <<>>
        dbResp  == IF c.DBFile # "" THEN <<"db.saveResponse">> ELSE <<>>
        fReq    == IF c.SaveDir # "" THEN <<"file.saveRequest">> ELSE <<>>
        fResp   == IF c.SaveDir # "" THEN <<"file.saveResponse">> ELSE <<>>
    IN  CASE st = "request_mod" -> ExplicitHooks(st) \o <<"stripAcceptEncoding">>
          [] st = "request_out" -> ExplicitHooks(st) \o logReq \o dbReq \o fReq
          [] st = "response_in" -> ExplicitHooks(st) \o logResp \o dbResp \o fResp
          [] OTHER -> ExplicitHooks(st)

\* The configuration the proxy is started with (GetProxy calls Apply once).
InitialConfig ==
    [DBFile |-> "", PrintLogs |-> FALSE, SaveDir |-> "",
     DomainRe |-> "^a", ExcludedExtensions |-> <<"PNG">>]

\* The configurations the model ranges over (the Config struct).
Configs ==
    [DBFile : {""}, PrintLogs : BOOLEAN, SaveDir : {""},
     DomainRe : DomainRes, ExcludedExtensions : {<<"PNG">>}]

\* The proto.Config values a SetConfig caller may send.
ConfigInputs ==
    [DbFile : {""}, PrintLogs : BOOLEAN, SaveDir : {""},
     ScopeDomainRe : DomainRes, ScopeExcludedExtensions : {<<"PNG">>}]

\* roQueueItem: a pointer to the message (here the exchange whose request or
\* response object it points to) and the hook vector read at RunPipeline.
NoItem == [id |-> 0, hooks |-> <<>>]

\* Server.GetConfig under the read lock: the five fields of s.config.
GetConfig ==
    [DbFile |-> config.DBFile, PrintLogs |-> config.PrintLogs,
     SaveDir |-> config.SaveDir, ScopeDomainRe |-> config.DomainRe,
     ScopeExcludedExtensions |-> config.ExcludedExtensions]

\* State after GetProxy: pipelines created by NewProxy, the startup
\* configuration applied, the plugin server holding it.
ProxyInit ==
    /\ InScopeFunc = ScopeNew(InitialConfig.DomainRe, InitialConfig.ExcludedExtensions)
    /\ hooks = [st \in StageSet |-> EffectiveHooks(InitialConfig, st)]
    /\ queue = [st \in ROStages |-> <<>>]
    /\ worker = [st \in ROStages |-> [item |-> NoItem, left |-> {}]]
    /\ config = InitialConfig
    /\ cfgPc = "idle"
    /\ newConfig = InitialConfig
    /\ lastSet = [invalid |-> FALSE, reply |-> "none",
                  before |-> [config |-> GetConfig, scope |-> InScopeFunc, hooks |-> hooks]]
    /\ setCalls = 0

(***************************************************************************)
(* Server.SetConfig and Config.Apply.  The call holds configMutex from its *)
(* first statement to its return, so calls run one at a time.              *)
(***************************************************************************)
\* Lock; newConfig := *s.config; the five fields copied from the request.
\* (lastSet notes what was in effect when the call began.)
SetConfigBegin(c) ==
    /\ cfgPc = "idle"
    /\ setCalls < MaxSetConfig
    /\ nextId + setCalls < MaxOps
    /\ setCalls' = setCalls + 1
    /\ newConfig' = [DBFile |-> c.DbFile, PrintLogs |-> c.PrintLogs,
                     SaveDir |-> c.SaveDir, DomainRe |-> c.ScopeDomainRe,
                     ExcludedExtensions |-> c.ScopeExcludedExtensions]
    /\ cfgPc' = "compile"
    /\ lastSet' = [invalid |-> ~RegexCompiles(c.ScopeDomainRe), reply |-> "none",
                   before |-> [config |-> GetConfig, scope |-> InScopeFunc, hooks |-> hooks]]
    /\ UNCHANGED <<config, proxyVars, handlerVars>>

\* Apply: the vectors are assembled locally, then regexp.Compile(c.DomainRe);
\* on error Apply returns it before touching the proxy.
ApplyCompile ==
    /\ cfgPc = "compile"
    /\ cfgPc' = IF newConfig.DomainRe # "" /\ ~RegexCompiles(newConfig.DomainRe)
                THEN "assign" ELSE "scope"
    /\ UNCHANGED <<config, newConfig, lastSet, setCalls, proxyVars, handlerVars>>

\* Proxy.SetScope: the predicate is installed on the proxy engine.
SetScope(sc) == sc

\* Apply: scope := scope.New(domainRe, c.ExcludedExtensions); p.SetScope(...)
ApplySetScope ==
    /\ cfgPc = "scope"
    /\ InScopeFunc' = SetScope(ScopeNew(newConfig.DomainRe, newConfig.ExcludedExtensions))
    /\ cfgPc' = "hooks1"
    /\ UNCHANGED <<config, newConfig, lastSet, setCalls, hooks, queue, worker, handlerVars>>

ApplyPc(k) ==
    CASE k = 1 -> "hooks1" [] k = 2 -> "hooks2" [] k = 3 -> "hooks3"
      [] k = 4 -> "hooks4" [] k = 5 -> "hooks5" [] k = 6 -> "hooks6"
      [] OTHER -> "assign"

\* Apply: the k-th of p.SetRequestInHooks ... p.SetResponseOutHooks, each
\* replacing one pipeline's vector under that pipeline's hooksMutex.
ApplySetHooks(k) ==
    /\ cfgPc = ApplyPc(k)
    /\ k \in 1..6
    /\ hooks' = [hooks EXCEPT ![Stages[k]] = EffectiveHooks(newConfig, Stages[k])]
    /\ cfgPc' = ApplyPc(k + 1)
    /\ UNCHANGED <<config, newConfig, lastSet, setCalls, InScopeFunc, queue, worker, handlerVars>>

\* What SetConfig answers, given whether Apply returned an error: the call's
\* result is discarded (`newConfig.Apply(s.proxy)`) and the reply is always
\* `&proto.Null{}, nil`.
SetConfigReply(applyFailed) == "ok"

\* s.config = &newConfig, also after a failed Apply; return; Unlock.
SetConfigFinish ==
    /\ cfgPc = "assign"
    /\ config' = newConfig
    /\ lastSet' = [lastSet EXCEPT
                      !.reply = SetConfigReply(~RegexCompiles(newConfig.DomainRe))]
    /\ cfgPc' = "idle"
    /\ UNCHANGED <<newConfig, setCalls, proxyVars, handlerVars>>

(***************************************************************************)
(* Proxy.ServeHTTP and Proxy.HandleConnect.                                *)
(***************************************************************************)
Handlers == {"plain", "tunnel"}

Exchanges == 1..MaxExchanges

NoReq == [id |-> 0, host |-> "", path |-> "", headers |-> {}]

\* The requests clients send.
Requests ==
    { [host |-> "a.test", path |-> "/", headers |-> {"Accept-Encoding"}],
      [host |-> "b.test", path |-> "/", headers |-> {}],
      [host |-> "a.test", path |-> "/img.png", headers |-> {}] }

\* An HTTP message as the pipelines see it: the exchange identifier in its
\* context, its header names, the path of the URL structure its URL field
\* points to ("" for a response), and the position of its body reader (0: at
\* the start, 1: the body has been read).
NoHttp ==
    [id |-> 0, headers |-> {}, url |-> "", pos |-> 0, kind |-> "plain", off |-> 0]

NoObj == [req |-> NoHttp, resp |-> NoHttp]

\* Whether a stage works on the request or on the response of the exchange.
Dir(st) == IF st \in {"request_in", "request_mod", "request_out"} THEN "req" ELSE "resp"

\* cloneRequest / cloneResponse: `*r = *req` (which copies the pointer to the
\* URL structure, not the structure), the header map copied entry by entry,
\* the body wrapper shallow-cloned: the same bytes behind a new reader
\* positioned at the start.  A body that is not a BodyWrapper is first read
\* to its end (io.ReadAll) into a new one, which holds what was left to read:
\* `off` counts the bytes in front of it.
clone(m) ==
    [id |-> m.id, headers |-> m.headers, url |-> m.url, pos |-> 0,
     kind |-> "wrapper",
     off |-> IF m.kind = "wrapper" THEN m.off ELSE m.off + m.pos]

\* What is recorded of an exchange: the handler that served it, the stages
\* whose hooks were invoked, the hook vector each stage had when the message
\* entered it, the hooks run for it with the message each received, the
\* stages that failed or dropped it, what went upstream and what the client
\* got.
NoEx ==
    [handler |-> "none", ws |-> FALSE, inScope |-> FALSE, invoked |-> {}, modErr |-> {},
     upstream |-> FALSE, client |-> "none",
     entered |-> [st \in StageSet |-> <<>>], ran |-> [st \in StageSet |-> <<>>],
     roErr |-> {}, dropped |-> {}, netErr |-> FALSE,
     sent |-> NoHttp, reply |-> NoHttp,
     hookOut |-> [rd |-> 0, repl |-> FALSE]]

\* The tunnel of a CONNECT: the hijacked client connection and the dialled
\* upstream connection ("none" before they exist), the status line the
\* CONNECT was answered with ("none": nothing written), the io.Copy
\* goroutines of a WebSocket splice still running, the peers that have
\* closed their side during the splice, and the CONNECTs seen so far.
NoTun ==
    [client |-> "none", dest |-> "none", connect |-> "none",
     copying |-> {}, peerClosed |-> {}, connects |-> 0]

HandlerInit ==
    /\ pc = [h \in Handlers |-> "idle"]
    /\ cur = [h \in Handlers |-> 0]
    /\ req = [h \in Handlers |-> NoReq]
    /\ heap = [i \in Exchanges |-> NoObj]
    /\ snap = [h \in Handlers |-> <<>>]
    /\ idx = [h \in Handlers |-> 0]
    /\ nextId = 0
    /\ tun = NoTun
    /\ ex = [i \in Exchanges |-> NoEx]

\* The tunnel loop after http.ReadRequest: a WebSocket upgrade is passed
\* through before the scope is looked at; any other request enters the
\* request pipelines when in scope and is forwarded as it is otherwise.  The
\* alternative looks at the scope first.
TunnelDispatchScopeFirst(ws, sc) ==
    IF sc THEN "request_in" ELSE IF ws THEN "splice" ELSE "forward"

TunnelDispatch(ws, sc) ==
    IF ws THEN "splice" ELSE IF sc THEN "request_in" ELSE "forward"

\* A request gets its identifier (uuid.New) and the scope predicate is
\* consulted: in scope, processRequestPipelines clones it and starts with
\* request_in; out of scope, it is forwarded as it is.  In the tunnel a
\* WebSocket upgrade (ws) is written upstream as read and the two
\* connections are spliced by two io.Copy goroutines.
BeginExchange(h, r, ws) ==
    LET id   == nextId + 1
        rq   == [id |-> id, host |-> r.host, path |-> r.path, headers |-> r.headers]
        sc   == IsInScope(InScopeFunc, rq)
        next == IF h = "tunnel" THEN TunnelDispatch(ws, sc)
                ELSE IF sc THEN "request_in" ELSE "forward"
    IN  /\ nextId < MaxExchanges
        /\ Cardinality({g \in DOMAIN cur : cur[g] # 0}) < MaxInFlight
        /\ nextId + setCalls < MaxOps
        /\ nextId' = id
        /\ pc' = [pc EXCEPT ![h] = next]
        /\ IF next = "splice"
           THEN /\ ex' = [ex EXCEPT ![id] = [NoEx EXCEPT !.handler = h, !.ws = ws,
                                                         !.upstream = TRUE,
                                                         !.client = "spliced"]]
                /\ tun' = [tun EXCEPT !.copying = {"c2d", "d2c"}]
                /\ UNCHANGED <<cur, req, heap>>
           ELSE /\ cur' = [cur EXCEPT ![h] = id]
                /\ req' = [req EXCEPT ![h] = rq]
                /\ heap' = [heap EXCEPT ![id].req =
                               clone([id |-> id, headers |-> r.headers, url |-> r.path,
                                      pos |-> 0, kind |-> "plain", off |-> 0])]
                /\ ex' = [ex EXCEPT ![id] = [NoEx EXCEPT !.handler = h, !.ws = ws,
                                                         !.inScope = sc]]
                /\ UNCHANGED tun

\* ServeHTTP up to the first scope check.
ServeHTTP(r) ==
    /\ pc["plain"] = "idle"
    /\ BeginExchange("plain", r, FALSE)
    /\ UNCHANGED <<proxyVars, configVars, snap, idx>>

\* Where HandleConnect stands after its setup: the tunnel goroutine runs
\* when the dial, the hijack, the 200 line and the certificate all
\* succeeded; every failure returns.  The alternative goes on after a failed
\* dial.
AfterConnectIgnoringDial(outcome) ==
    IF outcome \in {"ok", "dial_failed"} THEN "established" ELSE "idle"

AfterConnect(outcome) == IF outcome = "ok" THEN "established" ELSE "idle"

\* HandleConnect up to the start of the tunnel goroutine: net.Dial (answered
\* with 502 on failure), the hijack (500 on failure, the upstream connection
\* closed), the 200 line and the certificate (both connections closed on
\* failure).
HandleConnect(outcome) ==
    /\ pc["tunnel"] = "idle"
    /\ tun.connects < MaxConnects
    /\ pc' = [pc EXCEPT !["tunnel"] = AfterConnect(outcome)]
    /\ tun' = [NoTun EXCEPT
                  !.connects = tun.connects + 1,
                  !.connect = CASE outcome = "dial_failed"   -> "502"
                                [] outcome = "hijack_failed" -> "500"
                                [] outcome = "reply_failed"  -> "none"
                                [] OTHER                     -> "200",
                  !.dest = CASE outcome = "dial_failed" -> "none"
                             [] outcome = "ok"          -> "open"
                             [] OTHER                   -> "closed",
                  !.client = CASE outcome \in {"dial_failed", "hijack_failed"} -> "none"
                               [] outcome = "ok"                              -> "open"
                               [] OTHER                                       -> "closed"]
    /\ UNCHANGED <<proxyVars, configVars, cur, req, heap, snap, idx, nextId, ex>>

\* The deferred tlsClientConn.Close(), destConn.Close() and
\* tlsDestConn.Close() of the tunnel goroutine, run on every return.  The
\* alternative closes the client side only.
CloseOnReturnClientOnly(t) == [t EXCEPT !.client = "closed", !.copying = {}]

CloseOnReturn(t) == [t EXCEPT !.client = "closed", !.dest = "closed", !.copying = {}]

\* The tunnel loop's http.ReadRequest: the client is done (the goroutine
\* returns and closes both connections) or sends a request.
TunnelRead(r) ==
    /\ pc["tunnel"] = "established"
    /\ BeginExchange("tunnel", r, FALSE)
    /\ UNCHANGED <<proxyVars, configVars, snap, idx>>

TunnelEOF ==
    /\ pc["tunnel"] = "established"
    /\ pc' = [pc EXCEPT !["tunnel"] = "idle"]
    /\ tun' = CloseOnReturn(tun)
    /\ UNCHANGED <<proxyVars, configVars, cur, req, heap, snap, idx, nextId, ex>>

\* A WebSocket upgrade in the tunnel.
TunnelWebSocket(r) ==
    /\ pc["tunnel"] = "established"
    /\ BeginExchange("tunnel", r, TRUE)
    /\ UNCHANGED <<proxyVars, configVars, snap, idx>>

\* The peer a copy direction reads from, and the one it writes to.
CopySrc(dir) == IF dir = "c2d" THEN "client" ELSE "dest"

CopyDst(dir) == IF dir = "c2d" THEN "dest" ELSE "client"

\* One io.Copy of the splice returns because its source reached EOF: that
\* peer closed its side.
SpliceEOF(dir) ==
    /\ pc["tunnel"] = "splice"
    /\ dir \in tun.copying
    /\ tun' = [tun EXCEPT !.copying = @ \ {dir}, !.peerClosed = @ \cup {CopySrc(dir)}]
    /\ UNCHANGED <<proxyVars, configVars, pc, cur, req, heap, snap, idx, nextId, ex>>

\* One io.Copy returns because its write failed: the peer it writes to has
\* closed and the other peer sent more bytes.
SpliceWriteFails(dir) ==
    /\ pc["tunnel"] = "splice"
    /\ dir \in tun.copying
    /\ CopyDst(dir) \in tun.peerClosed
    /\ tun' = [tun EXCEPT !.copying = @ \ {dir}]
    /\ UNCHANGED <<proxyVars, configVars, pc, cur, req, heap, snap, idx, nextId, ex>>

\* wg.Wait() returns when both io.Copy goroutines are done; the tunnel
\* goroutine returns.
SpliceReturn ==
    /\ pc["tunnel"] = "splice"
    /\ tun.copying = {}
    /\ pc' = [pc EXCEPT !["tunnel"] = "idle"]
    /\ tun' = CloseOnReturn(tun)
    /\ UNCHANGED <<proxyVars, configVars, cur, req, heap, snap, idx, nextId, ex>>

\* The handler ends the exchange: its locals are gone, and when it is the
\* tunnel goroutine that returns, its deferred closes run.
EndExchange(h, next) ==
    /\ pc' = [pc EXCEPT ![h] = next]
    /\ cur' = [cur EXCEPT ![h] = 0]
    /\ req' = [req EXCEPT ![h] = NoReq]
    /\ tun' = IF h = "tunnel" /\ next = "idle" THEN CloseOnReturn(tun) ELSE tun

\* The response Client.Do(finalReq) or http.ReadResponse(destReader, finalReq)
\* returns: its Request field is finalReq, and GetResponseID reads the
\* identifier from that request's context.  The alternative is a response
\* with no request behind it, for which GetResponseID returns "".
ReadResponseDetached(finalReq) == NoHttp

ReadResponse(finalReq) == [NoHttp EXCEPT !.id = finalReq.id]

\* What the upstream reads.  ServeHTTP sends through p.Client, whose
\* http.Transport is built without DisableCompression: for a request that
\* has no Accept-Encoding header (and is neither a HEAD nor a Range request,
\* as all requests here) the transport asks for gzip itself and adds the
\* header on the wire.  The tunnel writes finalReq to the connection as it
\* is.
OnWire(h, m) ==
    IF h = "plain" THEN [m EXCEPT !.headers = @ \cup {"Accept-Encoding"}] ELSE m

\* p.Client.Do(finalReq) in ServeHTTP; finalReq.Write(tlsDestConn) and
\* http.ReadResponse in the tunnel.  A failure is answered with 502 on the
\* plain path and ends the tunnel goroutine.
Forward(h, outcome) ==
    /\ pc[h] = "forward"
    /\ outcome \in {"write_failed", "read_failed", "ok"}
    /\ IF outcome = "ok"
       THEN /\ ex' = [ex EXCEPT ![cur[h]].upstream = TRUE,
                                ![cur[h]].sent = OnWire(h, heap[cur[h]].req)]
            /\ heap' = [heap EXCEPT ![cur[h]].req.pos = 1,
                                    ![cur[h]].resp = clone(ReadResponse(heap[cur[h]].req))]
            /\ pc' = [pc EXCEPT ![h] = "scope_resp"]
            /\ UNCHANGED <<cur, req, tun>>
       ELSE /\ ex' = [ex EXCEPT ![cur[h]].upstream = (outcome = "read_failed"),
                                ![cur[h]].sent = IF outcome = "read_failed"
                                                 THEN OnWire(h, heap[cur[h]].req) ELSE @,
                                ![cur[h]].netErr = TRUE,
                                ![cur[h]].client = IF h = "plain" THEN "502" ELSE "closed"]
            /\ heap' = [heap EXCEPT ![cur[h]].req.pos =
                                        IF outcome = "read_failed" THEN 1 ELSE @]
            /\ EndExchange(h, "idle")
    /\ UNCHANGED <<proxyVars, configVars, snap, idx, nextId>>

\* The second `if p.InScopeFunc(req)`, evaluated when the response is there.
ScopeResponse(h) ==
    /\ pc[h] = "scope_resp"
    /\ pc' = [pc EXCEPT ![h] = IF IsInScope(InScopeFunc, req[h])
                               THEN "response_in" ELSE "write"]
    /\ UNCHANGED <<proxyVars, configVars, cur, req, heap, snap, idx, nextId, tun, ex>>

\* The final response is written to the client.  ServeHTTP returns; the
\* tunnel loop reads the next request, or returns when the write failed.
WriteResponse(h, ok) ==
    /\ pc[h] = "write"
    /\ ~ok => h = "tunnel"
    /\ ex' = [ex EXCEPT ![cur[h]].client = IF ok THEN "200" ELSE "closed",
                        ![cur[h]].netErr = IF ok THEN @ ELSE TRUE,
                        ![cur[h]].reply = IF ok THEN heap[cur[h]].resp ELSE @]
    /\ heap' = [heap EXCEPT ![cur[h]].resp.pos = IF ok THEN 1 ELSE @]
    /\ EndExchange(h, IF h = "tunnel" /\ ok THEN "established" ELSE "idle")
    /\ UNCHANGED <<proxyVars, configVars, snap, idx, nextId>>

MainInit ==
    /\ ProxyInit
    /\ HandlerInit

(***************************************************************************)
(* Read-only pipelines: the stage queue and its worker goroutine.          *)
(***************************************************************************)
NextAfter(st) ==
    CASE st = "request_in"   -> "request_mod"
      [] st = "request_mod"  -> "request_out"
      [] st = "request_out"  -> "forward"
      [] st = "response_in"  -> "response_mod"
      [] st = "response_mod" -> "response_out"
      [] st = "response_out" -> "write"

\* What the handler does with the error ReadOnlyPipeline.RunPipeline returns
\* ("pipeline queue full"): process{Request,Response}Pipelines call
\* `p.RequestInPipeline.runPipeline(currentReq)` as a statement, so the
\* result is discarded.
RunPipelineResultChecked(err) == err

RunPipelineResult(err) == FALSE

\* ReadOnlyPipeline.RunPipeline as called by process{Request,Response}Pipelines:
\* the hook vector is read under the read lock; when it is not empty the
\* item (the message pointer and that vector) is offered to the queue without
\* blocking and dropped when the queue is full.
RunROPipeline(h, st) ==
    /\ st \in ROStages
    /\ pc[h] = st
    /\ LET hs   == hooks[st]
           full == Len(hs) > 0 /\ Len(queue[st]) >= QueueCap
           e1   == [ex EXCEPT ![cur[h]].entered[st] = IF full THEN @ ELSE hs,
                              ![cur[h]].dropped = IF full THEN @ \cup {st} ELSE @]
       IN  /\ queue' = IF Len(hs) > 0 /\ ~full
                       THEN [queue EXCEPT ![st] = Append(@, [id |-> cur[h], hooks |-> hs])]
                       ELSE queue
           /\ IF RunPipelineResult(full)
              THEN /\ ex' = [e1 EXCEPT ![cur[h]].client = IF h = "plain" THEN "500" ELSE "closed"]
                   /\ EndExchange(h, "idle")
              ELSE /\ ex' = e1
                   /\ pc' = [pc EXCEPT ![h] = NextAfter(st)]
                   /\ UNCHANGED <<cur, req, tun>>
    /\ UNCHANGED <<InScopeFunc, hooks, worker, configVars, heap, snap, idx, nextId>>

\* The hook vector processItem runs for an item, `hooks := item.hooks`; the
\* alternative reads the pipeline's vector when the item is taken.
processItemLiveHooks(item, live) == live

processItemHooks(item, live) == item.hooks

\* processPipelineQueue: `for item := range p.queue`, then processItem forks
\* one goroutine per hook of the item.
WorkerTake(st) ==
    /\ worker[st].item = NoItem
    /\ queue[st] # <<>>
    /\ LET item == Head(queue[st])
           hs   == processItemHooks(item, hooks[st])
       IN  worker' = [worker EXCEPT ![st] = [item |-> [id |-> item.id, hooks |-> hs],
                                             left |-> 1..Len(hs)]]
    /\ queue' = [queue EXCEPT ![st] = Tail(@)]
    /\ UNCHANGED <<InScopeFunc, hooks, configVars, handlerVars>>

\* What a read-only hook does to the message it is handed.  The hook the
\* user registered on request_in sets a header, rewrites the path in the
\* request's URL structure and reads the body; the plugin, logging and
\* saving hooks read the body to convert or print it.
ROHookMutate(hk, t) ==
    IF hk = "user.RequestIn"
    THEN [t EXCEPT !.headers = @ \cup {"X-RO"}, !.url = "/ro", !.pos = 1]
    ELSE [t EXCEPT !.pos = 1]

\* The message behind the queued pointer after a hook ran on tempReq.  The
\* hook was handed a clone with its own header map and body reader, which
\* leaves those of the message as they were; the clone's URL field points to
\* the message's URL structure, so what the hook wrote there is in the
\* message.  The alternative hands the hook the queued pointer itself.
AfterROHookAliased(shared, t) == t

AfterROHook(shared, t) == [shared EXCEPT !.url = t.url]

\* What becomes of a read-only hook's error: processItem sends it to errChan
\* and logs it after wg.Wait; nothing reaches the handler.
processItemErrReported(err) == err

processItemErr(err) == FALSE

\* One forked goroutine of processItem: tempReq := clone(req); f(tempReq).
\* When the last one is done wg.Wait returns and the worker takes the next
\* item.
WorkerHook(st, k, fails) ==
    /\ worker[st].item # NoItem
    /\ k \in worker[st].left
    /\ fails => MayFail(worker[st].item.hooks[k])
    /\ LET id      == worker[st].item.id
           hk      == worker[st].item.hooks[k]
           shared  == heap[id][Dir(st)]
           tempReq == clone(shared)
       IN  /\ ex' = [ex EXCEPT ![id].invoked = @ \cup {st},
                               ![id].ran[st] = Append(@, [hook |-> hk, inp |-> tempReq]),
                               ![id].roErr = IF fails THEN @ \cup {st} ELSE @,
                               ![id].client = IF processItemErr(fails) THEN "500" ELSE @]
           /\ heap' = [heap EXCEPT ![id][Dir(st)] = AfterROHook(shared, ROHookMutate(hk, tempReq))]
    /\ worker' = [worker EXCEPT ![st] =
                     IF worker[st].left = {k}
                     THEN [item |-> NoItem, left |-> {}]
                     ELSE [item |-> worker[st].item, left |-> worker[st].left \ {k}]]
    /\ UNCHANGED <<InScopeFunc, hooks, queue, configVars,
                   pc, cur, req, snap, idx, nextId, tun>>

(***************************************************************************)
(* Mutation pipelines.                                                     *)
(***************************************************************************)
\* What a mutation hook returns for message m when it returns no error.  The
\* user's request hook sets the Accept-Encoding header, the user's response
\* hook sets X-Mod, the built-in hook registered last deletes
\* Accept-Encoding.  No plugin client is registered while exchanges run in
\* this specification, so the plugin hooks return the message they were
\* given.
ApplyModHook(hk, m) ==
    CASE hk = "stripAcceptEncoding" -> [m EXCEPT !.headers = @ \ {"Accept-Encoding"}]
      [] hk = "user.RequestMod"     -> [m EXCEPT !.headers = @ \cup {"Accept-Encoding"}]
      [] hk = "user.ResponseMod"    -> [m EXCEPT !.headers = @ \cup {"X-Mod"}]
      [] OTHER -> m

\* A pipeline that drops the hook's error and goes on with the next hook.
RunPipelineErrSwallowed(err) == FALSE

\* ModPipeline.RunPipeline, `if err != nil { return r, err }`.
RunPipelineErr(err) == err

\* What the client gets when a mutation stage fails: ServeHTTP answers with
\* http.Error(..., 500); the tunnel goroutine logs and returns, which closes
\* both connections without a response.
OnModError(h) == IF h = "plain" THEN "500" ELSE "closed"

\* ModPipeline.RunPipeline: the hook vector read under the read lock.
ModEnter(h, st) ==
    /\ st \in ModStages
    /\ pc[h] = st
    /\ idx[h] = 0
    /\ ex' = [ex EXCEPT ![cur[h]].entered[st] = hooks[st]]
    /\ IF Len(hooks[st]) = 0
       THEN /\ pc' = [pc EXCEPT ![h] = NextAfter(st)]
            /\ UNCHANGED <<snap, idx>>
       ELSE /\ snap' = [snap EXCEPT ![h] = hooks[st]]
            /\ idx' = [idx EXCEPT ![h] = 1]
            /\ UNCHANGED pc
    /\ UNCHANGED <<proxyVars, configVars, cur, req, heap, nextId, tun>>

\* `for _, fn := range hooks`: the hook the k-th iteration invokes.  The
\* alternative walks the vector from its end.
RangeHooksReversed(hs, k) == hs[Len(hs) + 1 - k]

RangeHooks(hs, k) == hs[k]

\* The message the next iteration hands to its hook, `r = modifiedReq`.
NextInput(r, modifiedReq) == modifiedReq

\* A body handle that is left where the hook stopped reading.
ResetSkipped(m) == m

\* `body.Reset()`: the body reader of the hook's result is put back to the
\* start.
Reset(m) == [m EXCEPT !.pos = 0]

\* What a mutation hook did with the body: how far it read (rd), and
\* whether the message it returns is the one it was given, its body still
\* the BodyWrapper, or a replacement whose body is a reader of the hook's
\* own making.
HookResults == [rd : 0..BodyLen, repl : BOOLEAN]

\* A hook that returns the message it was given without reading the body.
NoRead == [rd |-> 0, repl |-> FALSE]

HookReturn(m, res) ==
    IF res.repl THEN [m EXCEPT !.pos = res.rd, !.kind = "plain", !.off = 0]
                ELSE [m EXCEPT !.pos = res.rd]

\* A pipeline that hands the hook's result on as the hook left it.
AfterModHookAsLeft(m) == m

\* After each hook: a body that is a BodyWrapper is reset; any other body
\* is read to its end into a new BodyWrapper by clone.
AfterModHook(m) == IF m.kind = "wrapper" THEN Reset(m) ELSE clone(m)

\* One iteration of `for _, fn := range hooks` whose hook returned no error:
\* `modifiedReq, err := fn(r); r = modifiedReq`, then the reset or clone.
ModIteration(hk, r, res) ==
    AfterModHook(NextInput(r, HookReturn(ApplyModHook(hk, r), res)))

\* One iteration of `for _, fn := range hooks`: the hook is invoked; on an
\* error the pipeline returns it and the handler ends the exchange, otherwise
\* the message becomes the hook's result and, after the last hook, moves on.
ModHook(h, fails, res) ==
    /\ pc[h] \in ModStages
    /\ idx[h] \in 1..Len(snap[h])
    /\ fails => MayFail(RangeHooks(snap[h], idx[h]))
    /\ res \in HookResults
    /\ LET st   == pc[h]
           hk   == RangeHooks(snap[h], idx[h])
           r    == heap[cur[h]][Dir(st)]
           last == idx[h] = Len(snap[h])
           e1   == [ex EXCEPT ![cur[h]].invoked = @ \cup {st},
                              ![cur[h]].ran[st] = Append(@, [hook |-> hk, inp |-> r]),
                              ![cur[h]].hookOut = IF fails THEN @ ELSE res,
                              ![cur[h]].modErr = IF fails THEN @ \cup {st} ELSE @]
       IN  IF RunPipelineErr(fails)
           THEN /\ ex' = [e1 EXCEPT ![cur[h]].client = OnModError(h)]
                /\ EndExchange(h, "idle")
                /\ snap' = [snap EXCEPT ![h] = <<>>]
                /\ idx' = [idx EXCEPT ![h] = 0]
                /\ UNCHANGED heap
           ELSE /\ ex' = e1
                /\ heap' = [heap EXCEPT ![cur[h]][Dir(st)] =
                               IF fails THEN AfterModHook(NextInput(r, r))
                               ELSE ModIteration(hk, r, res)]
                /\ pc' = [pc EXCEPT ![h] = IF last THEN NextAfter(st) ELSE st]
                /\ snap' = [snap EXCEPT ![h] = IF last THEN <<>> ELSE @]
                /\ idx' = [idx EXCEPT ![h] = IF last THEN 0 ELSE @ + 1]
                /\ UNCHANGED <<cur, req, tun>>
    /\ UNCHANGED <<proxyVars, configVars, nextId>>

(***************************************************************************)
(* ModPipeline.RunPipeline on its own: the same message through a hook     *)
(* vector, and through that vector with one more hook that returns the     *)
(* message it is given.                                                    *)
(***************************************************************************)
\* The hook vectors of the two runs, the hook added, and what each hook of
\* the vector does with the body (the same in both runs).
NoopVectors ==
    { <<>>, <<"user.RequestMod">>, <<"stripAcceptEncoding">>,
      <<"user.RequestMod", "stripAcceptEncoding">>,
      <<"stripAcceptEncoding", "user.RequestMod">> }

NoNoop ==
    [on |-> FALSE, hs |-> <<>>, plan |-> <<>>, at |-> 0, rd |-> 0,
     a |-> NoHttp, ka |-> 0, b |-> NoHttp, kb |-> 0]

NoopInit == noop = NoNoop

\* The vector of the second run: the added hook stands after the first
\* `at` hooks.
WithNoop(hs, at) == SubSeq(hs, 1, at) \o <<"noop">> \o SubSeq(hs, at + 1, Len(hs))

\* The message enters the stage as processRequestPipelines hands it over: a
\* clone of the request read.
NoopStart(hs, plan, at, rd, headers) ==
    /\ ~noop.on
    /\ hs \in NoopVectors
    /\ plan \in [1..Len(hs) -> HookResults]
    /\ at \in 0..Len(hs)
    /\ rd \in 0..BodyLen
    /\ LET m == clone([NoHttp EXCEPT !.id = 1, !.headers = headers, !.url = "/"])
       IN  noop' = [on |-> TRUE, hs |-> hs, plan |-> plan, at |-> at, rd |-> rd,
                    a |-> m, ka |-> 0, b |-> m, kb |-> 0]
    /\ UNCHANGED scopeLog

\* One iteration of the run over the vector as it is.
NoopStepA ==
    /\ noop.on
    /\ noop.ka < Len(noop.hs)
    /\ LET k == noop.ka + 1
       IN  noop' = [noop EXCEPT !.ka = k,
                                !.a = ModIteration(RangeHooks(noop.hs, k), @, noop.plan[k])]
    /\ UNCHANGED scopeLog

\* One iteration of the run over the vector with the added hook, which
\* reads rd bytes of the body and returns the message it was given.
NoopStepB ==
    /\ noop.on
    /\ noop.kb < Len(noop.hs) + 1
    /\ LET k   == noop.kb + 1
           hs  == WithNoop(noop.hs, noop.at)
           hk  == RangeHooks(hs, k)
           res == IF k = noop.at + 1 THEN [rd |-> noop.rd, repl |-> FALSE]
                  ELSE noop.plan[IF k <= noop.at THEN k ELSE k - 1]
       IN  noop' = [noop EXCEPT !.kb = k, !.b = ModIteration(hk, @, res)]
    /\ UNCHANGED scopeLog

NextNoop ==
    \/ \E hs \in NoopVectors, at \in 0..2, rd \in 0..BodyLen,
          headers \in {{}, {"Accept-Encoding"}} :
          \E plan \in [1..Len(hs) -> HookResults] :
             NoopStart(hs, plan, at, rd, headers)
                /\ UNCHANGED <<certVars, pluginVars, mainVars>>
    \/ NoopStepA /\ UNCHANGED <<certVars, pluginVars, mainVars>>
    \/ NoopStepB /\ UNCHANGED <<certVars, pluginVars, mainVars>>

Init ==
    /\ CertInit
    /\ PluginInit
    /\ MainInit
    /\ ScopeInit
    /\ NoopInit

NextScope ==
    \E pb \in BuilderExtensions, re \in ScopeRes, rq \in ScopeRequests :
       ScopeCall(pb, re, rq) /\ UNCHANGED <<certVars, pluginVars, mainVars>>

SpecScope == Init /\ [][NextScope]_vars

SpecNoop == Init /\ [][NextNoop]_vars

NextCert ==
    \/ \E p \in Callers, host \in CertHosts :
          generateCertLookup(p, host) /\ UNCHANGED <<pluginVars, mainVars, funcVars>>
    \/ \E p \in Callers, fails \in BOOLEAN :
          generateCertGenerate(p, fails) /\ UNCHANGED <<pluginVars, mainVars, funcVars>>
    \/ \E p \in Callers :
          generateCertStore(p) /\ UNCHANGED <<pluginVars, mainVars, funcVars>>

SpecCert == Init /\ [][NextCert]_vars

NextPlugin ==
    \/ \E s \in Sessions, st \in ModStages, n \in ClientNames, registered \in BOOLEAN :
          StreamOpen(s, st, n, registered) /\ UNCHANGED <<certVars, mainVars, funcVars>>
    \/ \E s \in Sessions, sendOk \in BOOLEAN :
          StreamTake(s, sendOk) /\ UNCHANGED <<certVars, mainVars, funcVars>>
    \/ \E s \in Sessions, valid \in BOOLEAN, hs \in SUBSET PluginHeaders :
          StreamReply(s, valid, hs) /\ UNCHANGED <<certVars, mainVars, funcVars>>
    \/ \E s \in Sessions :
          AsyncClose(s) /\ UNCHANGED <<certVars, mainVars, funcVars>>
    \/ \E i \in Invocations, st \in ModStages, hs \in ClientHeaders :
          \E order \in Orders({modClients[st][n] : n \in ClientNames} \ {NoSession}) :
             ModHookSnapshot(i, st, hs, order) /\ UNCHANGED <<certVars, mainVars, funcVars>>
    \/ \E i \in Invocations :
          ModHookOffer(i) /\ UNCHANGED <<certVars, mainVars, funcVars>>
    \/ \E i \in Invocations :
          ModHookAwait(i) /\ UNCHANGED <<certVars, mainVars, funcVars>>
    \/ \E i \in Invocations :
          ModHookReturn(i) /\ UNCHANGED <<certVars, mainVars, funcVars>>

SpecPlugin == Init /\ [][NextPlugin]_vars

\* The scheduling the runtime guarantees: a goroutine that can take a step
\* takes it.  That covers the hook invocations, the close scheduled by
\* asyncCloseChannel and the stream handlers' loop; when a client reads what
\* it is sent is up to the network, and whether a client answers at all is
\* up to the client, so StreamReply is under no fairness condition.
PluginFairness ==
    /\ \A i \in Invocations :
          /\ WF_vars(ModHookOffer(i) /\ UNCHANGED <<certVars, mainVars, funcVars>>)
          /\ WF_vars(ModHookAwait(i) /\ UNCHANGED <<certVars, mainVars, funcVars>>)
          /\ WF_vars(ModHookReturn(i) /\ UNCHANGED <<certVars, mainVars, funcVars>>)
    /\ \A s \in Sessions :
          /\ WF_vars(AsyncClose(s) /\ UNCHANGED <<certVars, mainVars, funcVars>>)
          /\ WF_vars(StreamTake(s, TRUE) /\ UNCHANGED <<certVars, mainVars, funcVars>>)

SpecPluginLive == SpecPlugin /\ PluginFairness

Next ==
    \/ \E c \in ConfigInputs :
          SetConfigBegin(c) /\ UNCHANGED <<certVars, pluginVars, funcVars>>
    \/ ApplyCompile /\ UNCHANGED <<certVars, pluginVars, funcVars>>
    \/ ApplySetScope /\ UNCHANGED <<certVars, pluginVars, funcVars>>
    \/ \E k \in 1..6 :
          ApplySetHooks(k) /\ UNCHANGED <<certVars, pluginVars, funcVars>>
    \/ SetConfigFinish /\ UNCHANGED <<certVars, pluginVars, funcVars>>
    \/ \E r \in Requests :
          ServeHTTP(r) /\ UNCHANGED <<certVars, pluginVars, funcVars>>
    \/ HandleConnect("ok") /\ UNCHANGED <<certVars, pluginVars, funcVars>>
    \/ \E r \in Requests :
          TunnelRead(r) /\ UNCHANGED <<certVars, pluginVars, funcVars>>
    \/ TunnelEOF /\ UNCHANGED <<certVars, pluginVars, funcVars>>
    \/ \E h \in Handlers, st \in ROStages :
          RunROPipeline(h, st) /\ UNCHANGED <<certVars, pluginVars, funcVars>>
    \/ \E st \in ROStages :
          WorkerTake(st) /\ UNCHANGED <<certVars, pluginVars, funcVars>>
    \/ \E st \in ROStages :
          \E k \in worker[st].left, fails \in BOOLEAN :
             WorkerHook(st, k, fails) /\ UNCHANGED <<certVars, pluginVars, funcVars>>
    \/ \E h \in Handlers, st \in ModStages :
          ModEnter(h, st) /\ UNCHANGED <<certVars, pluginVars, funcVars>>
    \/ \E h \in Handlers, fails \in BOOLEAN :
          ModHook(h, fails, NoRead) /\ UNCHANGED <<certVars, pluginVars, funcVars>>
    \/ \E h \in Handlers, outcome \in {"write_failed", "read_failed", "ok"} :
          Forward(h, outcome) /\ UNCHANGED <<certVars, pluginVars, funcVars>>
    \/ \E h \in Handlers :
          ScopeResponse(h) /\ UNCHANGED <<certVars, pluginVars, funcVars>>
    \/ \E h \in Handlers, ok \in BOOLEAN :
          WriteResponse(h, ok) /\ UNCHANGED <<certVars, pluginVars, funcVars>>

Spec == Init /\ [][Next]_vars

(***************************************************************************)
(* One CONNECT tunnel from the dial to the return of its goroutine, with   *)
(* every outcome of the setup, WebSocket upgrades and the requests served  *)
(* inside the tunnel.                                                      *)
(***************************************************************************)
ConnectOutcomes == {"dial_failed", "hijack_failed", "reply_failed", "cert_failed", "ok"}

NextTunnel ==
    \/ \E outcome \in ConnectOutcomes :
          HandleConnect(outcome) /\ UNCHANGED <<certVars, pluginVars, funcVars>>
    \/ \E r \in Requests :
          TunnelRead(r) /\ UNCHANGED <<certVars, pluginVars, funcVars>>
    \/ TunnelEOF /\ UNCHANGED <<certVars, pluginVars, funcVars>>
    \/ \E r \in Requests :
          TunnelWebSocket(r) /\ UNCHANGED <<certVars, pluginVars, funcVars>>
    \/ \E dir \in {"c2d", "d2c"} :
          SpliceEOF(dir) /\ UNCHANGED <<certVars, pluginVars, funcVars>>
    \/ \E dir \in {"c2d", "d2c"} :
          SpliceWriteFails(dir) /\ UNCHANGED <<certVars, pluginVars, funcVars>>
    \/ SpliceReturn /\ UNCHANGED <<certVars, pluginVars, funcVars>>
    \/ \E st \in ROStages :
          RunROPipeline("tunnel", st) /\ UNCHANGED <<certVars, pluginVars, funcVars>>
    \/ \E st \in ROStages :
          WorkerTake(st) /\ UNCHANGED <<certVars, pluginVars, funcVars>>
    \/ \E st \in ROStages :
          \E k \in worker[st].left, fails \in BOOLEAN :
             WorkerHook(st, k, fails) /\ UNCHANGED <<certVars, pluginVars, funcVars>>
    \/ \E st \in ModStages :
          ModEnter("tunnel", st) /\ UNCHANGED <<certVars, pluginVars, funcVars>>
    \/ \E fails \in BOOLEAN :
          ModHook("tunnel", fails, NoRead) /\ UNCHANGED <<certVars, pluginVars, funcVars>>
    \/ \E outcome \in {"write_failed", "read_failed", "ok"} :
          Forward("tunnel", outcome) /\ UNCHANGED <<certVars, pluginVars, funcVars>>
    \/ ScopeResponse("tunnel") /\ UNCHANGED <<certVars, pluginVars, funcVars>>
    \/ \E ok \in BOOLEAN :
          WriteResponse("tunnel", ok) /\ UNCHANGED <<certVars, pluginVars, funcVars>>

SpecTunnel == Init /\ [][NextTunnel]_vars

\* The tunnel goroutine is scheduled: once both io.Copy goroutines are done,
\* wg.Wait() returns.  Nothing obliges a peer to close its side or to send
\* more bytes.
TunnelFairness == WF_vars(SpliceReturn /\ UNCHANGED <<certVars, pluginVars, funcVars>>)

SpecTunnelLive == SpecTunnel /\ TunnelFairness

(***************************************************************************)
(* A proxy on whose request_in stage the embedding program registers its   *)
(* own hook before traffic arrives, serving plain requests.                *)
(***************************************************************************)
\* The vectors the program installs: its hook alone, or its hook followed
\* by the plugin hook as GetProxy appends it.
RequestInVectors ==
    { <<"user.RequestIn">>, <<"user.RequestIn", "grpc.RequestInHook">> }

\* Proxy.SetRequestInHooks, called once before the first request.
SetRequestInHooks(hs) ==
    /\ nextId = 0
    /\ hooks["request_in"] = EffectiveHooks(InitialConfig, "request_in")
    /\ hooks' = [hooks EXCEPT !["request_in"] = hs]
    /\ UNCHANGED <<InScopeFunc, queue, worker, configVars, handlerVars>>

NextHooks ==
    \/ \E hs \in RequestInVectors :
          SetRequestInHooks(hs) /\ UNCHANGED <<certVars, pluginVars, funcVars>>
    \/ \E r \in Requests :
          nextId < MaxHookExchanges /\ ServeHTTP(r) /\ UNCHANGED <<certVars, pluginVars, funcVars>>
    \/ \E st \in ROStages :
          RunROPipeline("plain", st) /\ UNCHANGED <<certVars, pluginVars, funcVars>>
    \/ \E st \in ROStages :
          WorkerTake(st) /\ UNCHANGED <<certVars, pluginVars, funcVars>>
    \/ \E st \in ROStages :
          \E k \in worker[st].left, fails \in BOOLEAN :
             WorkerHook(st, k, fails) /\ UNCHANGED <<certVars, pluginVars, funcVars>>
    \/ \E st \in ModStages :
          ModEnter("plain", st) /\ UNCHANGED <<certVars, pluginVars, funcVars>>
    \/ \E fails \in BOOLEAN :
          ModHook("plain", fails, NoRead) /\ UNCHANGED <<certVars, pluginVars, funcVars>>
    \/ \E outcome \in {"write_failed", "read_failed", "ok"} :
          Forward("plain", outcome) /\ UNCHANGED <<certVars, pluginVars, funcVars>>
    \/ ScopeResponse("plain") /\ UNCHANGED <<certVars, pluginVars, funcVars>>
    \/ WriteResponse("plain", TRUE) /\ UNCHANGED <<certVars, pluginVars, funcVars>>

SpecHooks == Init /\ [][NextHooks]_vars

(***************************************************************************)
(* One plain exchange whose mutation hooks read the body as far as they    *)
(* like and return either the message they were given or a replacement.    *)
(***************************************************************************)
NextBody ==
    \/ \E r \in Requests :
          nextId < MaxHookExchanges /\ ServeHTTP(r) /\ UNCHANGED <<certVars, pluginVars, funcVars>>
    \/ \E st \in ROStages :
          RunROPipeline("plain", st) /\ UNCHANGED <<certVars, pluginVars, funcVars>>
    \/ \E st \in ROStages :
          WorkerTake(st) /\ UNCHANGED <<certVars, pluginVars, funcVars>>
    \/ \E st \in ROStages :
          \E k \in worker[st].left, fails \in BOOLEAN :
             WorkerHook(st, k, fails) /\ UNCHANGED <<certVars, pluginVars, funcVars>>
    \/ \E st \in ModStages :
          ModEnter("plain", st) /\ UNCHANGED <<certVars, pluginVars, funcVars>>
    \/ \E fails \in BOOLEAN, res \in HookResults :
          ModHook("plain", fails, res) /\ UNCHANGED <<certVars, pluginVars, funcVars>>
    \/ \E outcome \in {"write_failed", "read_failed", "ok"} :
          Forward("plain", outcome) /\ UNCHANGED <<certVars, pluginVars, funcVars>>
    \/ ScopeResponse("plain") /\ UNCHANGED <<certVars, pluginVars, funcVars>>
    \/ WriteResponse("plain", TRUE) /\ UNCHANGED <<certVars, pluginVars, funcVars>>

SpecBody == Init /\ [][NextBody]_vars


(***************************************************************************)
(* Claims about the pipelines and the two handlers.                        *)
(***************************************************************************)

\* C2: every request_in hook invocation for a request has completed before
\* the first request_mod hook is invoked on it: once a request_mod hook has
\* been invoked for an exchange, its request_in item is neither waiting in
\* the stage queue nor being processed by the stage worker.
C2_ReadOnlyStageCompletes ==
    \A i \in Exchanges :
        "request_mod" \in ex[i].invoked
        => /\ \A k \in 1..Len(queue["request_in"]) : queue["request_in"][k].id # i
           /\ worker["request_in"].item.id # i

\* C3: a request for which a request_mod hook returned an error is never
\* written to the upstream, on the plain path and in a CONNECT tunnel.
C3_ModErrorNeverUpstream ==
    \A i \in Exchanges :
        "request_mod" \in ex[i].modErr => ~ex[i].upstream

\* C3, witness: a tunnelled request whose request_mod hook failed; the
\* handler has ended the exchange and nothing was written upstream.
C3_Witness ==
    \E i \in Exchanges :
        /\ ex[i].handler = "tunnel"
        /\ "request_mod" \in ex[i].modErr
        /\ ex[i].client = "closed"
        /\ ~ex[i].upstream
        /\ pc["tunnel"] = "idle"

\* C4: when a mutation hook (request_mod or response_mod) returns an error
\* for an exchange, the client receives a 500 response for that exchange,
\* on the plain path and in a CONNECT tunnel.
C4_ModErrorAnswered500 ==
    \A i \in Exchanges :
        ex[i].modErr # {} => ex[i].client = "500"

\* C7: for an exchange whose request is out of scope, no hook of any of the
\* six stages is invoked, neither on the request nor on the response.
C7_OutOfScopeNoHooks ==
    \A i \in Exchanges :
        (ex[i].handler # "none" /\ ~ex[i].inScope) => ex[i].invoked = {}

(***************************************************************************)
(* Claims about the live configuration.                                    *)
(***************************************************************************)

\* C5: after a SetConfig call whose host regex does not compile, the
\* configuration GetConfig returns, the scope predicate and the six hook
\* vectors are those from before the call.
C5_InvalidRegexKeepsConfig ==
    (cfgPc = "idle" /\ lastSet.invalid)
    => /\ GetConfig = lastSet.before.config
       /\ InScopeFunc = lastSet.before.scope
       /\ hooks = lastSet.before.hooks

\* C6: a SetConfig call whose host regex does not compile returns an error
\* to its caller, not a success reply.
C6_InvalidRegexFails ==
    (cfgPc = "idle" /\ lastSet.invalid) => lastSet.reply = "error"

\* C10: the six hook vectors are replaced atomically: at every instant they
\* are, all six, the effective vectors of one configuration.
C10_HooksSwappedAtomically ==
    \E c \in Configs :
        \A st \in StageSet : hooks[st] = EffectiveHooks(c, st)

(***************************************************************************)
(* Claims about the certificate cache.                                     *)
(***************************************************************************)

\* C8: every call to generateCert for a host returns the same certificate
\* as every other call for that host, also when the calls run concurrently.
C8_SameCertForHost ==
    \A p, q \in Callers :
        ( /\ certPc[p] = "done" /\ certPc[q] = "done"
          /\ certHost[p] = certHost[q]
          /\ certRet[p] # NoCert /\ certRet[q] # NoCert )
        => certRet[p] = certRet[q]

\* C9: once a caller has been returned the certificate stored for a host,
\* the cache entry of that host is never replaced by another certificate.
C9_CacheMonotonic ==
    [][\A h \in CertHosts :
          (certObserved[h] /\ CertCache[h] # NoCert) => CertCache'[h] = CertCache[h]]_vars

(***************************************************************************)
(* Claims about the plugin hooks of the mutation stages.                   *)
(***************************************************************************)

\* C1: when a plugin client of a mutation stage replies with a modified
\* message, that message is what the plugin hook returns to the pipeline,
\* hence what the rest of the stage works on and what is handed on (a header
\* inserted by the client is present on the message delivered).
C1_PluginReplyReturned ==
    \A i \in Invocations :
        (inv[i].pc = "done" /\ inv[i].replied)
        => /\ inv[i].ret = inv[i].lastReply
           /\ inv[i].delivered = RestOfStage(inv[i].stage, inv[i].lastReply)

\* C17: with several plugin clients on a mutation stage the mutations are
\* applied one after the other: a client that comes after a client that has
\* replied is sent that reply, not the message the hook was called with.
C17_ClientsChained ==
    \A i \in Invocations :
        (inv[i].pc = "await" /\ inv[i].replied) => inv[i].sent = inv[i].lastReply

\* C18: a client whose reply is absent (nil) is evicted at once, the hook
\* goes on with the remaining clients, and what it returns keeps the
\* mutations of the clients that did reply.
C18_NilReplyEvicts ==
    \A i \in Invocations :
        (inv[i].pc = "done" /\ inv[i].nils # {} /\ inv[i].replied)
        => /\ \A c \in inv[i].nils : modClients[inv[i].stage][sess[c].name] # c
           /\ inv[i].idx > Len(inv[i].clients)
           /\ inv[i].ret = inv[i].lastReply

\* C19: a client whose inbox is full when a message is offered to it is
\* removed from the registry of its stage and the close of its inbox is
\* scheduled (asyncCloseChannel), so that its stream handler returns.  The
\* step that skips a client on a full inbox is the one that moves the hook
\* to the next client without leaving the offer.
C19_FullInboxEvictedAndClosed ==
    [][\A i \in Invocations :
          (inv[i].pc = "offer" /\ inv'[i].pc = "offer" /\ inv'[i].idx = inv[i].idx + 1)
          => /\ modClients'[inv[i].stage][sess[inv[i].clients[inv[i].idx]].name] = NoSession
             /\ \/ inv[i].clients[inv[i].idx] \in closing'
                \/ sess'[inv[i].clients[inv[i].idx]].inboxClosed]_vars

\* C20: a client whose stream has ended is no longer in the registry of its
\* stage (so that its name can be registered again).
C20_StreamEndUnregisters ==
    \A s \in Sessions :
        sess[s].pc = "closed" => modClients[sess[s].stage][sess[s].name] # s


(***************************************************************************)
(* Claims about hook vectors, read-only hooks and mutation stages.         *)
(***************************************************************************)
\* C11: a message that has entered a stage is processed by exactly the hook
\* vector installed when it entered.  Every hook run for it belongs to that
\* vector and runs once, and when the stage is through with the message
\* (nothing of it queued or in processItem; the mutation stage left without
\* an error) every hook of that vector has run, whatever SetHooks installed
\* in the meantime.
C11_SnapshotVectorRuns ==
    \A i \in Exchanges, st \in StageSet :
        LET e == ex[i].entered[st]
            r == ex[i].ran[st]
            through ==
                IF st \in ROStages
                THEN /\ \A k \in 1..Len(queue[st]) : queue[st][k].id # i
                     /\ worker[st].item.id # i
                ELSE /\ st \notin ex[i].modErr
                     /\ \A h \in Handlers : ~(cur[h] = i /\ pc[h] = st)
        IN  /\ Len(r) <= Len(e)
            /\ \A k \in 1..Len(r) : \E j \in 1..Len(e) : e[j] = r[k].hook
            /\ \A k1, k2 \in 1..Len(r) : k1 # k2 => r[k1].hook # r[k2].hook
            /\ through => Len(r) = Len(e)

\* An exchange whose request_out item was processed in full with the vector
\* read at entry although SetConfig has installed a longer one since.
C11_Witness ==
    \E i \in Exchanges :
        /\ ex[i].entered["request_out"] # <<>>
        /\ Len(ex[i].ran["request_out"]) = Len(ex[i].entered["request_out"])
        /\ Len(hooks["request_out"]) > Len(ex[i].entered["request_out"])
        /\ worker["request_out"].item.id # i
        /\ \A k \in 1..Len(queue["request_out"]) : queue["request_out"][k].id # i

\* C12: an error returned by a read-only hook never fails the exchange.  An
\* exchange one of whose read-only hooks failed, with no mutation hook error
\* and no network failure, ends with the response written to the client.
C12_ROHookErrorNeverFails ==
    \A i \in Exchanges :
        (ex[i].roErr # {} /\ ex[i].modErr = {} /\ ~ex[i].netErr /\ ex[i].client # "none")
        => ex[i].client = "200"

\* The request logging hook of request_out failed and the exchange went on
\* upstream and was answered.
C12_Witness ==
    \E i \in Exchanges :
        /\ "request_out" \in ex[i].roErr
        /\ ex[i].upstream
        /\ ex[i].client = "200"

\* C13: enqueueing on a read-only stage never blocks or fails the exchange.
\* An exchange whose item was dropped at a full stage queue, with no mutation
\* hook error and no network failure, ends with the response written to the
\* client, and the handler has left the stage in the step that dropped it.
C13_FullQueueDropsNotFails ==
    \A i \in Exchanges :
        /\ (ex[i].dropped # {} /\ ex[i].modErr = {} /\ ~ex[i].netErr /\ ex[i].client # "none")
           => ex[i].client = "200"
        /\ \A h \in Handlers :
              (cur[h] = i /\ pc[h] \in ROStages) => pc[h] \notin ex[i].dropped

\* An exchange whose request_in item was dropped and which then ran its
\* request_mod hooks, went upstream and was answered.
C13_Witness ==
    \E i \in Exchanges :
        /\ "request_in" \in ex[i].dropped
        /\ ex[i].ran["request_mod"] # <<>>
        /\ ex[i].upstream
        /\ ex[i].client = "200"

C15_ROHookChangesStayLocal ==
    \A i \in Exchanges :
        /\ "X-RO" \notin heap[i].req.headers /\ heap[i].req.url # "/ro"
        /\ "X-RO" \notin heap[i].resp.headers
        /\ "X-RO" \notin ex[i].sent.headers /\ ex[i].sent.url # "/ro"
        /\ "X-RO" \notin ex[i].reply.headers
        /\ \A st \in ModStages : \A k \in 1..Len(ex[i].ran[st]) :
              /\ "X-RO" \notin ex[i].ran[st][k].inp.headers
              /\ ex[i].ran[st][k].inp.url # "/ro"

\* C16: in a mutation stage the hooks run one at a time in registration
\* order, each receiving the message the previous one returned, and the
\* stage returns the last hook's result.  The hooks run so far are the first
\* hooks of the vector read at entry, in its order; each later one was handed
\* the previous one's result; the message after the stage is the last one's
\* result, so that Accept-Encoding, set by the user's hook and deleted by the
\* hook registered after it, is not on the request.
C16_ModHooksSequentialInOrder ==
    \A i \in Exchanges, st \in ModStages :
        LET e == ex[i].entered[st]
            r == ex[i].ran[st]
            through == /\ Len(r) = Len(e)
                       /\ Len(r) > 0
                       /\ st \notin ex[i].modErr
        IN  /\ Len(r) <= Len(e)
            /\ \A k \in 1..Len(r) : r[k].hook = e[k]
            /\ \A k \in 1..(Len(r) - 1) :
                  /\ r[k + 1].inp.headers = ApplyModHook(r[k].hook, r[k].inp).headers
                  /\ r[k + 1].inp.id = r[k].inp.id
                  /\ r[k + 1].inp.pos = 0
            /\ through =>
                  /\ heap[i][Dir(st)].headers =
                        ApplyModHook(r[Len(r)].hook, r[Len(r)].inp).headers
                  /\ st = "request_mod" => "Accept-Encoding" \notin heap[i].req.headers

\* A request that came with Accept-Encoding went through the three hooks of
\* request_mod.
C16_Witness ==
    \E i \in Exchanges :
        /\ Len(ex[i].ran["request_mod"]) = 3
        /\ "request_mod" \notin ex[i].modErr
        /\ "Accept-Encoding" \in ex[i].ran["request_mod"][3].inp.headers
        /\ "Accept-Encoding" \notin heap[i].req.headers

(***************************************************************************)
(* Claims about the plugin clients of the mutation stages.                 *)
(***************************************************************************)
\* C21: a plugin client that stops consuming or stops replying never stalls
\* the pipeline.  Every plugin hook invocation that has started eventually
\* returns.
C21_HookEventuallyReturns ==
    \A i \in Invocations :
        (inv[i].pc \in {"offer", "await"}) ~> (inv[i].pc = "done")

\* C22: within one stage a client name is registered at most once.  A stream
\* handler is turned away only when its name is present in the registry of
\* its own stage, and then the registries are left as they are; it registers
\* only under a name absent from its stage, and then only that entry of that
\* stage changes, whatever the other stage holds under the name.
C22_DuplicateNameRejected ==
    [][\A s \in Sessions :
          sess[s].pc = "new" =>
             /\ sess'[s].pc = "rejected" =>
                   /\ modClients[sess'[s].stage][sess'[s].name] # NoSession
                   /\ modClients' = modClients
             /\ sess'[s].pc = "range" =>
                   /\ modClients[sess'[s].stage][sess'[s].name] = NoSession
                   /\ modClients' =
                         [modClients EXCEPT ![sess'[s].stage][sess'[s].name] = s]]_vars

\* A handler was turned away while another session holds its name in the
\* same stage.
C22_Witness ==
    \E s \in Sessions :
        /\ sess[s].pc = "rejected"
        /\ modClients[sess[s].stage][sess[s].name] \notin {NoSession, s}

\* C24: while the set of clients registered on a mutation stage does not
\* change, every message is offered to those clients in the same order.  A
\* session registers once, when its stream opens, and an evicted one never
\* comes back; so when the registry of a stage holds every session, it has
\* not changed since the last of them registered, and two invocations that
\* both listed every session listed the same registry: their lists are the
\* same sequence.
C24_StableClientOrder ==
    \A i, j \in Invocations :
        (/\ inv[i].pc # "idle" /\ inv[j].pc # "idle"
         /\ inv[i].stage = inv[j].stage
         /\ {modClients[inv[i].stage][n] : n \in ClientNames} \ {NoSession} = Sessions
         /\ {inv[i].clients[k] : k \in 1..Len(inv[i].clients)} = Sessions
         /\ {inv[j].clients[k] : k \in 1..Len(inv[j].clients)} = Sessions)
        => inv[i].clients = inv[j].clients

\* C23: no failure inside a plugin hook is surfaced to the HTTP client or
\* brings the proxy down.  No plugin hook invocation ends in a panic (which
\* unwinds the handler that called the pipeline: the exchange gets no
\* response, and in the tunnel goroutine, which has no recover, the process
\* exits).
C23_PluginFailureNeverSurfaces ==
    \A i \in Invocations : inv[i].pc # "panic"

(***************************************************************************)
(* Claims about identifiers, tunnels and message bodies.                   *)
(***************************************************************************)
\* C25: for every exchange the identifier the response-stage hooks read
\* equals the one the request-stage hooks read, and it is not empty.  Every
\* hook run for an exchange, in any of the six stages, on either path, was
\* handed a message that carries the identifier the exchange was given when
\* its request was read.
C25_SameIdentifierRequestResponse ==
    \A i \in Exchanges, st \in StageSet :
        \A k \in 1..Len(ex[i].ran[st]) :
            /\ ex[i].ran[st][k].inp.id = i
            /\ ex[i].ran[st][k].inp.id # NoHttp.id

\* A request inside a tunnel for which request_in and response_in hooks ran.
C25_Witness ==
    \E i \in Exchanges :
        /\ ex[i].handler = "tunnel"
        /\ ex[i].ran["request_in"] # <<>>
        /\ ex[i].ran["response_in"] # <<>>

\* C26: inside a CONNECT tunnel a request that is a WebSocket upgrade is
\* passed through without any pipeline stage: no stage is entered for it,
\* no hook of request_in, request_mod or request_out (nor of a response
\* stage) is invoked on it or run on it by a worker.
C26_WebSocketSkipsPipelines ==
    \A i \in Exchanges :
        ex[i].ws =>
            /\ ex[i].handler = "tunnel"
            /\ ex[i].entered = NoEx.entered
            /\ ex[i].invoked = NoEx.invoked
            /\ ex[i].ran = NoEx.ran
            /\ ex[i].dropped = NoEx.dropped

\* A WebSocket upgrade was spliced on a tunnel that ran the request stages
\* for an ordinary request before it.
C26_Witness ==
    \E i, j \in Exchanges :
        /\ ex[i].ws /\ ex[i].client = "spliced"
        /\ ~ex[j].ws /\ ex[j].handler = "tunnel"
        /\ ex[j].entered["request_mod"] # <<>>

\* C27: after a WebSocket upgrade the splice lasts only until either side
\* closes: once one peer has closed its side, the splice ends and the tunnel
\* goroutine leaves its loop.
C27_SpliceEndsWhenOneSideCloses ==
    (pc["tunnel"] = "splice" /\ tun.peerClosed # {}) ~> (pc["tunnel"] = "idle")

\* C28: when the dial to the CONNECT target fails, the CONNECT is answered
\* with 502, the tunnel is at once in its terminal state, and nothing of
\* the pipelines happens for it: the step that handles the CONNECT creates
\* no exchange and queues nothing, and as long as the 502 stands the tunnel
\* stays idle, begins no exchange and enters no stage (the workers may
\* still run what an earlier tunnel had queued).
C28_DialFailureIs502NoPipeline ==
    [][ /\ (tun'.connects # tun.connects /\ tun'.dest = "none") =>
               /\ tun'.connect = "502"
               /\ tun'.client = "none"
               /\ ex' = ex /\ queue' = queue /\ worker' = worker
               /\ heap' = heap /\ nextId' = nextId
        /\ (tun'.connect = "502") =>
               /\ pc'["tunnel"] = "idle"
               /\ cur'["tunnel"] = 0
               /\ \A i \in Exchanges :
                     ex'[i].handler = "tunnel" =>
                        /\ ex[i].handler = "tunnel"
                        /\ ex'[i].entered = ex[i].entered
      ]_vars

\* A CONNECT whose dial failed was answered, on a proxy with hooks on the
\* request stages.
C28_Witness ==
    /\ tun.connect = "502"
    /\ tun.dest = "none"
    /\ pc["tunnel"] = "idle"
    /\ hooks["request_in"] # <<>>
    /\ hooks["request_mod"] # <<>>

\* C29: whenever a CONNECT tunnel has terminated after a successful dial
\* (the client is done, a read or a write failed, a pipeline failed, the
\* certificate could not be made, the 200 line could not be written, a
\* WebSocket splice ended), the upstream connection is closed and so is the
\* client connection the proxy took over; no copy goroutine is left.
C29_BothSidesClosedOnExit ==
    (pc["tunnel"] = "idle" /\ tun.dest # "none") =>
        /\ tun.dest = "closed"
        /\ tun.copying = {}
        /\ tun.client # "none" => tun.client = "closed"
        /\ tun.connect # "500" => tun.client = "closed"

\* A tunnel that served a request, then spliced a WebSocket upgrade, has
\* terminated after both peers closed.
C29_Witness ==
    /\ pc["tunnel"] = "idle"
    /\ tun.connect = "200"
    /\ tun.peerClosed = {"client", "dest"}
    /\ tun.client = "closed" /\ tun.dest = "closed"
    /\ \E i, j \in Exchanges :
          /\ ex[i].ws
          /\ ex[j].handler = "tunnel" /\ ex[j].inScope /\ ex[j].reply # NoHttp

\* C30: after a mutation stage has run any number of hooks on a message, the
\* body of the resulting message is readable from position zero, however
\* far each hook read and whether a hook returned the message it was given
\* or a replacement: the message a mutation stage holds between two hooks,
\* and the one it hands to the stage that follows, has a BodyWrapper body
\* whose reader stands at the start, and so had every message a mutation
\* hook received.
C30_BodyAtZeroAfterModStage ==
    /\ \A h \in Handlers :
          (cur[h] # 0 /\ pc[h] \in ModStages \cup {"request_out", "response_out"}) =>
              LET m == heap[cur[h]][Dir(pc[h])]
              IN  m.pos = 0 /\ m.kind = "wrapper"
    /\ \A i \in Exchanges, st \in ModStages :
          \A k \in 1..Len(ex[i].ran[st]) :
              /\ ex[i].ran[st][k].inp.pos = 0
              /\ ex[i].ran[st][k].inp.kind = "wrapper"

\* The response stage has run its hooks, the last of which read the whole
\* body of the message it was given and returned it, on an exchange whose
\* request was replaced by a hook that had read part of the replacement.
C30_Witness ==
    /\ pc["plain"] = "response_out"
    /\ cur["plain"] # 0
    /\ LET e == ex[cur["plain"]]
           o == heap[cur["plain"]]
       IN  /\ Len(e.ran["request_mod"]) >= 2
           /\ Len(e.ran["response_mod"]) >= 1
           /\ e.hookOut = [rd |-> BodyLen, repl |-> FALSE]
           /\ o.req.off > 0
           /\ o.resp.pos = 0

\* C31: every in-scope request that reaches the upstream carries no
\* Accept-Encoding header, whatever the other request_mod hooks did to it.
C31_UpstreamSeesNoAcceptEncoding ==
    \A i \in Exchanges :
        (ex[i].inScope /\ ex[i].upstream) =>
            "Accept-Encoding" \notin ex[i].sent.headers

(***************************************************************************)
(* Claims about the scope predicate.                                       *)
(***************************************************************************)

\* C32: when no exclusion list is supplied the default excluded extensions
\* apply: a request whose URL path ends in one of the default extensions
\* (.png, .jpg, .mp4, ...) is out of scope.
C32_DefaultExtensionsExcluded ==
    \A k \in 1..Len(scopeLog) :
        LET c   == scopeLog[k]
            ext == ToLower(PathExt(URLPath(c.rq.target)))
        IN  (~c.pb.given /\ \E d \in 1..Len(defaultExcludedExtensions) :
                                 defaultExcludedExtensions[d] = ext)
                => ~c.result

\* C33: in_scope gives the same result for two requests that differ only in
\* the letter case of the host, or only in their query string.
C33_HostCaseAndQueryIrrelevant ==
    \A j, k \in 1..Len(scopeLog) :
        LET a == scopeLog[j]
            b == scopeLog[k]
            sameRest == /\ a.pb = b.pb /\ a.re = b.re
                        /\ a.rq.hostHeader = b.rq.hostHeader
                        /\ a.rq.authority = b.rq.authority
            caseOnly  == /\ sameRest
                         /\ a.rq.target = b.rq.target
                         /\ ToLower(a.rq.host) = ToLower(b.rq.host)
            queryOnly == /\ sameRest
                         /\ a.rq.host = b.rq.host
                         /\ URLPath(a.rq.target) = URLPath(b.rq.target)
        IN  (caseOnly \/ queryOnly) => a.result = b.result

\* C34: a request for which no host is available at all (no Host value, no
\* Host header, no URL authority) is out of scope, also when no host regex
\* is configured.
C34_NoHostOutOfScope ==
    \A k \in 1..Len(scopeLog) :
        LET c == scopeLog[k]
        IN  (c.rq.host = "" /\ c.rq.hostHeader = "" /\ c.rq.authority = "")
                => ~c.result

(***************************************************************************)
(* Further claims about the pipelines and the handlers.                    *)
(***************************************************************************)

\* C35: response_out hooks start running for an exchange only after the
\* proxy has handed the final response to the client-side write path: while
\* the handler has yet to write the response of an exchange, no
\* response_out hook has run for it.
C35_ResponseOutAfterWrite ==
    \A h \in Handlers :
        (cur[h] # 0 /\ pc[h] = "write") =>
            ex[cur[h]].ran["response_out"] = <<>>

\* C36: a mutation hook that returns its input unchanged is a no-op on the
\* exchange: the stage run with such a hook added hands to the next stage a
\* message with the same headers, body content, body read position and
\* identifier as the stage run without it.
C36_IdentityHookIsNoop ==
    (noop.on /\ noop.ka = Len(noop.hs) /\ noop.kb = Len(noop.hs) + 1) =>
        /\ noop.b.headers = noop.a.headers
        /\ noop.b.off = noop.a.off
        /\ noop.b.pos = noop.a.pos
        /\ noop.b.id = noop.a.id
        /\ noop.b.kind = noop.a.kind
        /\ noop.b.url = noop.a.url

\* Both runs are through; the added hook stood between two hooks of the
\* vector and read the whole body, and a hook of the vector replaced the
\* message after reading part of the replacement.
C36_Witness ==
    /\ noop.on
    /\ Len(noop.hs) = 2 /\ noop.at = 1 /\ noop.rd = BodyLen
    /\ noop.ka = 2 /\ noop.kb = 3
    /\ noop.plan[1].repl /\ noop.plan[1].rd = 1
    /\ noop.a.off = 1
    /\ noop.b = noop.a

\* C37: the scope decision is consistent within one exchange: the response
\* pipelines run for an exchange if and only if the request pipelines ran
\* for it, also when SetConfig replaces the scope predicate between the
\* forwarding of the request and the arrival of the response.  A handler in
\* a response stage serves an exchange whose request went through the
\* request stages, and a handler about to write the response of such an
\* exchange has taken the response through the response stages.
C37_ScopeDecisionConsistent ==
    \A h \in Handlers :
        cur[h] # 0 =>
            LET e == ex[cur[h]]
            IN  /\ pc[h] \in {"response_in", "response_mod", "response_out"}
                      => e.inScope
                /\ (pc[h] = "write" /\ e.inScope)
                      => \/ e.entered["response_out"] # <<>>
                         \/ "response_out" \in e.dropped

(***************************************************************************)
(* Further claims about the plugin clients of the mutation stages.         *)
(***************************************************************************)

\* C38: when several exchanges invoke the plugin hook of a mutation stage
\* concurrently, each invocation receives from a client the reply that the
\* client produced for the message this invocation sent, never the reply to
\* another exchange's message: the reply an invocation took from a client
\* carries the identifier of the invocation's own message.
C38_ReplyMatchesInvocation ==
    \A i \in Invocations :
        inv[i].replied => inv[i].lastReply.id = inv[i].r.id

\* C39: no hook invocation ever sends a message on a plugin client's inbox
\* after that inbox has been closed: no invocation stands before its offer
\* to a client, taken from the list it made of the registry, whose inbox
\* the delayed close has closed.
C39_NoOfferToClosedInbox ==
    \A i \in Invocations :
        (inv[i].pc = "offer" /\ inv[i].idx <= Len(inv[i].clients))
            => ~sess[inv[i].clients[inv[i].idx]].inboxClosed

(***************************************************************************)
(* What the read-only hooks of the entry stages are handed.                *)
(***************************************************************************)

\* C40: each read-only hook observes the message as it was when the message
\* entered that hook's stage: a request_in hook is never handed a request
\* that shows what request_mod hooks did to its headers (it is handed the
\* headers of the request the handler read, which processRequestPipelines
\* cloned), and a response_in hook is never handed a response that shows
\* what response_mod hooks did (it is handed the headers of the response
\* read from the upstream).
C40_ReadOnlyHookSeesEntryMessage ==
    \A i \in 1..nextId :
        /\ \A k \in 1..Len(ex[i].ran["request_in"]) : \A h \in DOMAIN req :
              req[h].id = i
                  => ex[i].ran["request_in"][k].inp.headers = req[h].headers
        /\ \A k \in 1..Len(ex[i].ran["response_in"]) :
              ex[i].ran["response_in"][k].inp.headers
                  = ReadResponse(heap[i].req).headers

====
